---------------------------- MODULE Spec2Model ----------------------------
(***************************************************************************)
(* Order placement of the vendora backend: the PlaceOrder saga of          *)
(* internal/adapters/repository/order_repository.go, driven by the         *)
(* handler of internal/handlers/order_handler.go, against the products,    *)
(* orders and carts collections, together with the catalog and cart        *)
(* operations that share those collections.                                *)
(*                                                                         *)
(* Every store call of PlaceOrder is one step, so that concurrent          *)
(* invocations interleave exactly where the code waits on the store.       *)
(* Money is held in units of 1/10000 of a currency unit, in which the 5%   *)
(* tax of a price given in cents is exact.                                 *)
(***************************************************************************)
EXTENDS Integers, Sequences, FiniteSets, TLC

\* ------------------------------------------------------------ bounds
\* stock every product starts with
InitStock == 2
\* largest quantity one cart request asks for
MaxQty == 2
\* events around the invocations in one behaviour: cart requests, catalog requests
\* and failures of the environment (a store call failing, a deadline passing)
MaxEvents == 3

\* ------------------------------------------------------------ universe
Sagas == {"s1", "s2"}
\* invocations are interchangeable: they start in this order
Before(t, s) == t = "s1" /\ s = "s2"
Users == {"u1"}
Products == {"p1", "p2"}
OrderNumbers == {"VEN-1", "VEN-2"}
NumLeq(n, m) == n = "VEN-1" \/ m = "VEN-2"
\* the stock a vendor's update request carries
StockInputs == {InitStock}
Scale == 100 * 100
Prices == {240 * Scale, 300 * Scale}
InitPrice == 240 * Scale
VendorOf(p) == IF p = "p1" THEN "v1" ELSE "v2"

NoProduct == [exists |-> FALSE, stock |-> 0, price |-> 0, vendorId |-> "none"]
ZeroDelta == [p \in Products |-> 0]

\* ------------------------------------------------------------ state
VARIABLES
    products,       \* products collection: id -> document
    carts,          \* carts collection: user -> cart lines
    orders,         \* orders collection: set of order documents
    saga,           \* the locals of each PlaceOrder invocation
    hist,           \* what each invocation did to the store, for the properties
    stockTouched,   \* products whose stock a catalog request wrote
    events,         \* cart requests, catalog requests and failures so far
    confirm         \* the locals of the buyer's ConfirmReceipt request

vars == <<products, carts, orders, saga, hist, stockTouched, events, confirm>>

\* ------------------------------------------------------------ pricing
FreeShippingThreshold == 500
FlatShippingFee == 25
TaxRatePercent == 5

\* mutant of the shipping fee: free from the threshold on
ShippingFeeFreeAtThreshold(sub) ==
    IF sub >= FreeShippingThreshold * Scale THEN 0 ELSE FlatShippingFee * Scale

\* 25, or 0 when the subtotal is above 500
ShippingFee(sub) == IF sub > FreeShippingThreshold * Scale THEN 0 ELSE FlatShippingFee * Scale
Tax(sub) == (sub * TaxRatePercent) \div 100
Total(sub) == sub + ShippingFee(sub) + Tax(sub)

\* ------------------------------------------------------------ helpers
RECURSIVE SumSeq(_)
SumSeq(q) == IF q = <<>> THEN 0 ELSE Head(q) + SumSeq(Tail(q))

\* quantity of product p in a sequence of lines
RECURSIVE QtyOf(_, _)
QtyOf(items, p) ==
    IF items = <<>> THEN 0
    ELSE (IF Head(items).productId = p THEN Head(items).quantity ELSE 0)
         + QtyOf(Tail(items), p)

RECURSIVE SumOrders(_, _)
SumOrders(os, p) ==
    IF os = {} THEN 0
    ELSE LET o == CHOOSE x \in os : TRUE
         IN QtyOf(o.items, p) + SumOrders(os \ {o}, p)

\* index of the line of product p in a cart, 0 when there is none
LineOf(c, p) ==
    IF \E k \in 1..Len(c) : c[k].productId = p
    THEN CHOOSE k \in 1..Len(c) : c[k].productId = p
    ELSE 0

\* ------------------------------------------------------------ initial state
IdleSaga ==
    [pc |-> "idle", userID |-> "none", expired |-> FALSE, cart |-> <<>>, i |-> 0,
     product |-> NoProduct, processedProducts |-> <<>>, orderItems |-> <<>>,
     subtotal |-> 0, rb |-> <<>>, rbCtx |-> "none", err |-> "none"]

NoHist ==
    [seen |-> <<>>, relLog |-> <<>>, insLog |-> <<>>, delta |-> ZeroDelta,
     writes |-> 0, cleared |-> 0, clearOut |-> "none"]

\* ConfirmReceipt before it is called
IdleConfirm == [pc |-> "idle", orderID |-> 0, userID |-> "none", err |-> "none"]

Init ==
    /\ products = [p \in Products |->
                     [exists |-> TRUE, stock |-> InitStock, price |-> InitPrice,
                      vendorId |-> VendorOf(p)]]
    /\ carts = [u \in Users |-> <<>>]
    /\ orders = {}
    /\ saga = [s \in Sagas |-> IdleSaga]
    /\ hist = [s \in Sagas |-> NoHist]
    /\ stockTouched = {}
    /\ events = 0
    /\ confirm = IdleConfirm


\* ------------------------------------------------------------ PlaceOrder
\* mutant of the empty-cart test: never empty
CartIsEmptyNever(c) == FALSE

\* len(cart.Items) == 0, the test of the handler and of the repository
CartIsEmpty(c) == Len(c) = 0

\* a store call made under the request's context fails once the deadline has passed,
\* and any store call may fail on its own (fault)
CallFails(s, ctxKind, fault) == fault \/ (ctxKind = "request" /\ saga[s].expired)

\* the failures the environment may still produce
FaultChoices == IF events < MaxEvents THEN BOOLEAN ELSE {FALSE}
Count(fault) == IF fault THEN 1 ELSE 0

\* mutants of the filter: no stock condition; the stock read by the earlier lookup
ReserveMatchesNoStock(s, doc, qty) == doc.exists
ReserveMatchesLookedUp(s, doc, qty) == doc.exists /\ saga[s].product.stock >= qty

\* the filter of the reserving update: {_id, stock: {$gte: quantity}}, evaluated by
\* the store on the document as it is when the update is applied
ReserveMatches(s, doc, qty) == doc.exists /\ doc.stock >= qty

\* mutant of the order line: the price of the cart line
OrderItemCartPrice(item, prod) ==
    [productId |-> item.productId, vendorId |-> prod.vendorId, price |-> item.price,
     quantity |-> item.quantity, subtotal |-> item.price * item.quantity]

\* the order line built after a successful reservation
OrderItemOf(item, prod) ==
    [productId |-> item.productId, vendorId |-> prod.vendorId, price |-> prod.price,
     quantity |-> item.quantity, subtotal |-> prod.price * item.quantity]

\* mutants of the released list: nothing after a failed insert; all but the first
ReleaseListNotAfterInsert(cause, processed) ==
    IF cause \in {"notFound", "persist", "conflict"} THEN <<>> ELSE processed
ReleaseListSkipsFirst(cause, processed) ==
    IF cause = "notFound" \/ processed = <<>> THEN <<>> ELSE Tail(processed)

\* the reservations released on each error return
ReleaseList(cause, processed) == IF cause = "notFound" THEN <<>> ELSE processed

\* the context the releasing updates are issued under
ReleaseCtx(cause) == IF cause \in {"persist", "conflict"} THEN "background" ELSE "request"

\* the order number drawn from the clock and the random source: one already in use
\* or the next unused one
NumberChoices ==
    LET used == {o.orderNumber : o \in orders}
    IN used \cup (IF OrderNumbers \ used = {} THEN {}
                  ELSE {CHOOSE n \in OrderNumbers \ used :
                          \A m \in OrderNumbers \ used : NumLeq(n, m)})

\* what InsertOne may answer: a conflict needs an order holding the same number
InsertOutcomes(num) ==
    {"ok"} \cup (IF events < MaxEvents THEN {"error"} ELSE {})
           \cup (IF \E o \in orders : o.orderNumber = num THEN {"conflict"} ELSE {})

\* mutant of the step after InsertOne: a conflict is tried again
AfterInsertRetries(outcome) ==
    IF outcome = "ok" THEN "clearCart" ELSE IF outcome = "conflict" THEN "retry" ELSE "abort"

\* mutants of the step after InsertOne: always the error return; always the cart clear
AfterInsertAbortsAlways(outcome) == "abort"
AfterInsertClearsAlways(outcome) == "clearCart"

\* where PlaceOrder goes after InsertOne answered
AfterInsert(outcome) == IF outcome = "ok" THEN "clearCart" ELSE "abort"

\* mutant of the order document: inserted as paid
OrderOfPaid(s, num) ==
    [id |-> Cardinality(orders) + 1, orderNumber |-> num, userId |-> saga[s].userID,
     items |-> saga[s].orderItems, subtotal |-> saga[s].subtotal,
     shippingFee |-> ShippingFee(saga[s].subtotal), tax |-> Tax(saga[s].subtotal),
     total |-> Total(saga[s].subtotal), status |-> "paid",
     paymentStatus |-> "paid", paymentId |-> "", trackingNumber |-> "", by |-> s]

\* the order document assembled from the locals
OrderOf(s, num) ==
    [id |-> Cardinality(orders) + 1, orderNumber |-> num, userId |-> saga[s].userID,
     items |-> saga[s].orderItems, subtotal |-> saga[s].subtotal,
     shippingFee |-> ShippingFee(saga[s].subtotal), tax |-> Tax(saga[s].subtotal),
     total |-> Total(saga[s].subtotal), status |-> "pending",
     paymentStatus |-> "pending", paymentId |-> "", trackingNumber |-> "", by |-> s]

\* mutant of the loop: it ends after the first line
LoopPcStopsAfterFirst(c, i) == IF i > 1 THEN "insert" ELSE "lookup"

\* the for loop over cart.Items: the next line, or the insert after the last one
LoopPc(c, i) == IF i > Len(c) THEN "insert" ELSE "lookup"

\* an error return: the releases it makes come first
Aborted(s, cause) ==
    LET rl == ReleaseList(cause, saga[s].processedProducts)
    IN [saga[s] EXCEPT !.err = cause, !.rb = rl, !.rbCtx = ReleaseCtx(cause),
                       !.pc = IF rl = <<>> THEN "done" ELSE "rollback"]

\* the handler: fetch the buyer's cart, refuse an empty one, call the repository
Start(s, u) ==
    /\ saga[s].pc = "idle"
    /\ \A t \in Sagas : Before(t, s) => saga[t].pc # "idle"
    /\ \E fault \in FaultChoices :
         /\ events' = events + Count(fault)
         /\ saga' = [saga EXCEPT ![s] =
                      IF fault
                      THEN [@ EXCEPT !.pc = "done", !.userID = u, !.err = "fetchCart"]
                      ELSE IF CartIsEmpty(carts[u])
                      THEN [@ EXCEPT !.pc = "done", !.userID = u, !.err = "emptyCart"]
                      ELSE [@ EXCEPT !.pc = LoopPc(carts[u], 1), !.userID = u,
                                     !.cart = carts[u], !.i = 1]]
    /\ UNCHANGED <<products, carts, orders, hist, stockTouched, confirm>>

\* the request's 30 s deadline passes while the invocation is in flight
DeadlineExpires(s) ==
    /\ saga[s].pc \notin {"idle", "done"}
    /\ ~saga[s].expired
    /\ events < MaxEvents
    /\ events' = events + 1
    /\ saga' = [saga EXCEPT ![s].expired = TRUE]
    /\ UNCHANGED <<products, carts, orders, hist, stockTouched, confirm>>

\* productColl.FindOne of the current line
Lookup(s) ==
    /\ saga[s].pc = "lookup"
    /\ \E fault \in FaultChoices :
         LET item == saga[s].cart[saga[s].i]
             doc == products[item.productId]
         IN /\ events' = events + Count(fault)
            /\ IF CallFails(s, "request", fault) \/ ~doc.exists
               THEN /\ saga' = [saga EXCEPT ![s] = Aborted(s, "notFound")]
                    /\ hist' = hist
               ELSE /\ saga' = [saga EXCEPT ![s].product = doc, ![s].pc = "reserve"]
                    /\ hist' = [hist EXCEPT ![s].seen =
                                  Append(@, [price |-> doc.price, vendorId |-> doc.vendorId])]
    /\ UNCHANGED <<products, carts, orders, stockTouched, confirm>>

\* mutant of the reservation list: the newest entry goes first
RememberFirst(processed, item) ==
    <<[ID |-> item.productId, Qty |-> item.quantity]>> \o processed

\* processedProducts = append(processedProducts, {ID, Qty}) after a reservation
Remember(processed, item) ==
    Append(processed, [ID |-> item.productId, Qty |-> item.quantity])

\* productColl.UpdateOne with the stock filter, and the bookkeeping after it
Reserve(s) ==
    /\ saga[s].pc = "reserve"
    /\ \E fault \in FaultChoices :
         LET item == saga[s].cart[saga[s].i]
             p == item.productId
             q == item.quantity
             line == OrderItemOf(item, saga[s].product)
         IN /\ events' = events + Count(fault)
            /\ hist' = [hist EXCEPT
                  ![s].writes = @ + 1,
                  ![s].delta[p] = IF ~CallFails(s, "request", fault)
                                     /\ ReserveMatches(s, products[p], q)
                                  THEN @ - q ELSE @]
            /\ IF CallFails(s, "request", fault)
               THEN /\ saga' = [saga EXCEPT ![s] = Aborted(s, "reserveErr")]
                    /\ products' = products
               ELSE IF ReserveMatches(s, products[p], q)
               THEN /\ products' = [products EXCEPT ![p].stock = @ - q]
                    /\ saga' = [saga EXCEPT
                          ![s].processedProducts = Remember(@, item),
                          ![s].orderItems = Append(@, line),
                          ![s].subtotal = @ + line.subtotal,
                          ![s].i = @ + 1,
                          ![s].pc = LoopPc(saga[s].cart, saga[s].i + 1)]
               ELSE /\ saga' = [saga EXCEPT ![s] = Aborted(s, "insufficient")]
                    /\ products' = products
    /\ UNCHANGED <<carts, orders, stockTouched, confirm>>

\* mutant of the error kept across a release: a failed release takes its place
ReleaseResultSurfaces(err, out) == IF out = "ok" THEN err ELSE "releaseErr"

\* the error PlaceOrder is about to return, after one release answered: the result
\* of the releasing UpdateOne is not looked at
ReleaseResult(err, out) == err

\* one releasing update of the rollback loops; its error is dropped
Release(s) ==
    /\ saga[s].pc = "rollback"
    /\ \E fault \in FaultChoices :
         LET e == Head(saga[s].rb)
             ctx == saga[s].rbCtx
             out == IF ctx = "request" /\ saga[s].expired THEN "deadline"
                    ELSE IF fault THEN "fault" ELSE "ok"
             applied == out = "ok" /\ products[e.ID].exists
         IN /\ events' = events + Count(fault)
            /\ products' = IF applied
                           THEN [products EXCEPT ![e.ID].stock = @ + e.Qty]
                           ELSE products
            /\ hist' = [hist EXCEPT
                  ![s].relLog = Append(@, [ID |-> e.ID, Qty |-> e.Qty, ctx |-> ctx,
                                           out |-> out]),
                  ![s].writes = @ + 1,
                  ![s].delta[e.ID] = IF applied THEN @ + e.Qty ELSE @]
            /\ saga' = [saga EXCEPT
                  ![s].rb = Tail(@),
                  ![s].err = ReleaseResult(@, out),
                  ![s].pc = IF Len(saga[s].rb) = 1 THEN "done" ELSE "rollback"]
    /\ UNCHANGED <<carts, orders, stockTouched, confirm>>

\* totals, order number, orderColl.InsertOne under its own 10 s context
Insert(s) ==
    /\ saga[s].pc = "insert"
    /\ \E num \in NumberChoices : \E outcome \in InsertOutcomes(num) :
         /\ events' = events + Count(outcome = "error")
         /\ hist' = [hist EXCEPT ![s].insLog = Append(@, outcome), ![s].writes = @ + 1]
         /\ orders' = IF outcome = "ok" THEN orders \cup {OrderOf(s, num)} ELSE orders
         /\ saga' = [saga EXCEPT ![s] =
               IF AfterInsert(outcome) = "clearCart" THEN [@ EXCEPT !.pc = "clearCart"]
               ELSE IF AfterInsert(outcome) = "abort"
               THEN Aborted(s, IF outcome = "conflict" THEN "conflict" ELSE "persist")
               ELSE [@ EXCEPT !.pc = "insert"]]
    /\ UNCHANGED <<products, carts, stockTouched, confirm>>

\* mutant of the result after the cart clear: a failed clear is returned as an error
ClearResultSurfaces(failed) == IF failed THEN "clearCart" ELSE "none"

\* what PlaceOrder returns after the cart clear: both results of UpdateOne are dropped
ClearResult(failed) == "none"

\* cartColl.UpdateOne emptying the buyer's cart, then the return of the order
ClearCart(s) ==
    /\ saga[s].pc = "clearCart"
    /\ \E fault \in FaultChoices :
         LET failed == CallFails(s, "request", fault)
         IN /\ events' = events + Count(fault)
            /\ carts' = IF failed THEN carts ELSE [carts EXCEPT ![saga[s].userID] = <<>>]
            /\ hist' = [hist EXCEPT ![s].writes = @ + 1, ![s].cleared = @ + 1,
                                    ![s].clearOut = IF failed THEN "failed" ELSE "ok"]
            /\ saga' = [saga EXCEPT ![s].pc = "done", ![s].err = ClearResult(failed)]
    /\ UNCHANGED <<products, orders, stockTouched, confirm>>

\* ------------------------------------------------------------ catalog requests
\* the vendor's update: $set of the whole input, price and stock included
UpdateProduct(p, price, stock) ==
    /\ events < MaxEvents
    /\ products[p].exists
    /\ products' = [products EXCEPT ![p].price = price, ![p].stock = stock]
    /\ stockTouched' = stockTouched \cup {p}
    /\ events' = events + 1
    /\ UNCHANGED <<carts, orders, saga, hist, confirm>>

DeleteProduct(p) ==
    /\ events < MaxEvents
    /\ products[p].exists
    /\ products' = [products EXCEPT ![p] = NoProduct]
    /\ stockTouched' = stockTouched \cup {p}
    /\ events' = events + 1
    /\ UNCHANGED <<carts, orders, saga, hist, confirm>>

\* ------------------------------------------------------------ cart requests
\* mutant of the binding: any quantity is let through
QuantityBindsAny(q) == TRUE

\* binding:"required,min=1" of the quantity of a cart request
QuantityBinds(q) == q >= 1

\* the handler's stock checks, then the repository's merge-or-append
AddToCart(u, p, q, price) ==
    /\ events < MaxEvents
    /\ QuantityBinds(q)
    /\ products[p].exists
    /\ price = products[p].price
    /\ q <= products[p].stock
    /\ LET k == LineOf(carts[u], p)
       IN IF k = 0
          THEN carts' = [carts EXCEPT ![u] =
                           Append(@, [productId |-> p, quantity |-> q, price |-> price])]
          ELSE /\ carts[u][k].quantity + q <= products[p].stock
               /\ carts' = [carts EXCEPT ![u][k].quantity = @ + q]
    /\ events' = events + 1
    /\ UNCHANGED <<products, orders, saga, hist, stockTouched, confirm>>

\* CartHandler.UpdateQuantity: the binding, the stock check, then the positional $set
\* on the line of the product, a no-op when the cart has no such line
UpdateQuantity(u, p, q) ==
    /\ events < MaxEvents
    /\ QuantityBinds(q)
    /\ products[p].exists
    /\ q <= products[p].stock
    /\ LET k == LineOf(carts[u], p)
       IN carts' = IF k = 0 THEN carts ELSE [carts EXCEPT ![u][k].quantity = q]
    /\ events' = events + 1
    /\ UNCHANGED <<products, orders, saga, hist, stockTouched, confirm>>

\* the cart without the lines of product p
RECURSIVE Pull(_, _)
Pull(c, p) ==
    IF c = <<>> THEN <<>>
    ELSE IF Head(c).productId = p THEN Pull(Tail(c), p)
    ELSE <<Head(c)>> \o Pull(Tail(c), p)

\* CartHandler.RemoveFromCart: $pull of the lines of the product
RemoveFromCart(u, p) ==
    /\ events < MaxEvents
    /\ carts' = [carts EXCEPT ![u] = Pull(@, p)]
    /\ events' = events + 1
    /\ UNCHANGED <<products, orders, saga, hist, stockTouched, confirm>>

\* CartHandler.ClearCart: $set of items to the empty list
ClearCartRequest(u) ==
    /\ events < MaxEvents
    /\ carts' = [carts EXCEPT ![u] = <<>>]
    /\ events' = events + 1
    /\ UNCHANGED <<products, orders, saga, hist, stockTouched, confirm>>

\* ------------------------------------------------------------ order requests
OrderIDs == 1..Cardinality(Sagas)
\* the statuses and tracking numbers a vendor's request carries
StatusInputs == {"shipped", "cancelled"}
TrackingInputs == {"", "TRK-1"}
Vendors == {VendorOf(p) : p \in Products}
\* the authenticated callers of ConfirmReceipt: the buyer and somebody else
Callers == Users \cup {"u2"}
PaymentIds == {"pi_1"}

\* mutant of the status update: the totals are computed again, shipping waived
SetStatusRecomputes(o, status, trackingNumber) ==
    [o EXCEPT !.status = status, !.shippingFee = 0, !.total = o.subtotal + o.tax]

\* mutant of the status update: the shipping fee is waived, the total kept
SetStatusWaivesShipping(o, status, trackingNumber) ==
    [o EXCEPT !.status = status, !.shippingFee = 0]

\* mutant of the status update: the payment status goes back to pending
SetStatusResetsPayment(o, status, trackingNumber) ==
    [o EXCEPT !.status = status, !.paymentStatus = "pending"]

\* the $set of UpdateOrderStatus on one document: status, and the tracking number
\* when one is given
SetStatus(o, status, trackingNumber) ==
    [o EXCEPT !.status = status,
              !.trackingNumber = IF trackingNumber # "" THEN trackingNumber ELSE @]

\* MongoOrderRepository.UpdateOrderStatus: UpdateOne filtered by _id
UpdateOrderStatus(orderID, status, trackingNumber) ==
    {IF o.id = orderID THEN SetStatus(o, status, trackingNumber) ELSE o : o \in orders}

\* the vendor's request: the order exists and holds a line of the vendor
UpdateVendorOrderStatus(orderID, vendorID, status, trackingNumber) ==
    /\ events < MaxEvents
    /\ \E o \in orders :
          o.id = orderID /\ \E k \in 1..Len(o.items) : o.items[k].vendorId = vendorID
    /\ orders' = UpdateOrderStatus(orderID, status, trackingNumber)
    /\ events' = events + 1
    /\ UNCHANGED <<products, carts, saga, hist, stockTouched, confirm>>

\* ConfirmReceipt up to its checks on the order it read
ConfirmRead(orderID, userID) ==
    /\ confirm.pc = "idle"
    /\ confirm' =
          IF ~\E o \in orders : o.id = orderID
          THEN [pc |-> "done", orderID |-> orderID, userID |-> userID, err |-> "notFound"]
          ELSE LET order == CHOOSE o \in orders : o.id = orderID
               IN IF order.userId # userID
                  THEN [pc |-> "done", orderID |-> orderID, userID |-> userID,
                        err |-> "forbidden"]
                  ELSE IF order.status # "shipped"
                  THEN [pc |-> "done", orderID |-> orderID, userID |-> userID,
                        err |-> "notShipped"]
                  ELSE [pc |-> "write", orderID |-> orderID, userID |-> userID,
                        err |-> "none"]
    /\ UNCHANGED <<products, carts, orders, saga, hist, stockTouched, events>>

\* ConfirmReceipt's update to delivered
ConfirmWrite ==
    /\ confirm.pc = "write"
    /\ orders' = UpdateOrderStatus(confirm.orderID, "delivered", "")
    /\ confirm' = [confirm EXCEPT !.pc = "done"]
    /\ UNCHANGED <<products, carts, saga, hist, stockTouched, events>>

\* payment_intent.succeeded of a verified event naming an order of the collection
HandleWebhook(orderID, paymentId) ==
    /\ events < MaxEvents
    /\ \E o \in orders : o.id = orderID
    /\ orders' = {IF o.id = orderID
                  THEN [o EXCEPT !.status = "paid", !.paymentStatus = "paid",
                                 !.paymentId = paymentId]
                  ELSE o : o \in orders}
    /\ events' = events + 1
    /\ UNCHANGED <<products, carts, saga, hist, stockTouched, confirm>>

\* ------------------------------------------------------------ specification
Next ==
    \/ \E s \in Sagas, u \in Users : Start(s, u)
    \/ \E s \in Sagas : DeadlineExpires(s)
    \/ \E s \in Sagas : Lookup(s)
    \/ \E s \in Sagas : Reserve(s)
    \/ \E s \in Sagas : Release(s)
    \/ \E s \in Sagas : Insert(s)
    \/ \E s \in Sagas : ClearCart(s)
    \/ \E p \in Products, price \in Prices, stock \in StockInputs : UpdateProduct(p, price, stock)
    \/ \E p \in Products : DeleteProduct(p)
    \/ \E u \in Users, p \in Products, q \in 1..MaxQty, price \in Prices : AddToCart(u, p, q, price)

Spec == Init /\ [][Next]_vars

\* one checkout and the life of its order
Buyer == "s1"

LifeNext ==
    \/ \E u \in Users : Start(Buyer, u)
    \/ Lookup(Buyer)
    \/ Reserve(Buyer)
    \/ Release(Buyer)
    \/ Insert(Buyer)
    \/ ClearCart(Buyer)
    \/ \E p \in Products, price \in Prices, stock \in StockInputs : UpdateProduct(p, price, stock)
    \/ \E p \in Products : DeleteProduct(p)
    \/ \E u \in Users, p \in Products, q \in 1..MaxQty, price \in Prices : AddToCart(u, p, q, price)
    \/ \E id \in OrderIDs, v \in Vendors, st \in StatusInputs, tn \in TrackingInputs :
          UpdateVendorOrderStatus(id, v, st, tn)
    \/ \E id \in OrderIDs, u \in Callers : ConfirmRead(id, u)
    \/ ConfirmWrite
    \/ \E id \in OrderIDs, pid \in PaymentIds : HandleWebhook(id, pid)

LifeSpec == Init /\ [][LifeNext]_vars

\* the same under the assumption that every store call of the checkout returns
FairLifeSpec ==
    LifeSpec /\ WF_vars(Lookup(Buyer) \/ Reserve(Buyer) \/ Release(Buyer)
                           \/ Insert(Buyer) \/ ClearCart(Buyer))

\* the cart requests of a buyer around one checkout
QtyInputs == (0 - 1)..MaxQty

CartNext ==
    \/ \E u \in Users, p \in Products, q \in QtyInputs, price \in Prices : AddToCart(u, p, q, price)
    \/ \E u \in Users, p \in Products, q \in QtyInputs : UpdateQuantity(u, p, q)
    \/ \E u \in Users, p \in Products : RemoveFromCart(u, p)
    \/ \E u \in Users : ClearCartRequest(u)
    \/ \E u \in Users : Start(Buyer, u)
    \/ Lookup(Buyer)
    \/ Reserve(Buyer)
    \/ Release(Buyer)
    \/ Insert(Buyer)
    \/ ClearCart(Buyer)

CartSpec == Init /\ [][CartNext]_vars

\* one checkout over a catalog of any prices
PriceInputs == {240 * Scale, 250 * Scale, 300 * Scale, 1010 * (Scale \div 100)}

PricingInit ==
    /\ \E f \in [Products -> PriceInputs] :
          products = [p \in Products |->
                        [exists |-> TRUE, stock |-> InitStock, price |-> f[p],
                         vendorId |-> VendorOf(p)]]
    /\ carts = [u \in Users |-> <<>>]
    /\ orders = {}
    /\ saga = [s \in Sagas |-> IdleSaga]
    /\ hist = [s \in Sagas |-> NoHist]
    /\ stockTouched = {}
    /\ events = 0
    /\ confirm = IdleConfirm

PricingNext ==
    \/ \E u \in Users, p \in Products, q \in 1..MaxQty, price \in PriceInputs : AddToCart(u, p, q, price)
    \/ \E u \in Users : Start(Buyer, u)
    \/ Lookup(Buyer)
    \/ Reserve(Buyer)
    \/ Release(Buyer)
    \/ Insert(Buyer)
    \/ ClearCart(Buyer)

PricingSpec == PricingInit /\ [][PricingNext]_vars


\* ------------------------------------------------------------ properties
Done(s) == saga[s].pc = "done"
Failed(s) == Done(s) /\ saga[s].err # "none"
OrdersBy(s) == {o \in orders : o.by = s}

\* the releases an invocation issued, as (product, quantity) in the order issued
Released(s) == [k \in 1..Len(hist[s].relLog) |->
                  [ID |-> hist[s].relLog[k].ID, Qty |-> hist[s].relLog[k].Qty]]
NoReleaseFailed(s) == \A k \in 1..Len(hist[s].relLog) : hist[s].relLog[k].out = "ok"

\* the invocation's own net effect on the stock of the products still in the catalog
NetZero(s) == \A p \in Products : products[p].exists => hist[s].delta[p] = 0

\* C1: stock conservation. For a product whose stock only PlaceOrder changed, the
\* quantities of that product over all inserted orders add up to at most the
\* initial stock, in every reachable state of every interleaving.
C1_StockConservation ==
    \A p \in Products : p \notin stockTouched => SumOrders(orders, p) <= InitStock

\* two orders from two invocations share out the whole initial stock of a product
C1_Witness ==
    \E p \in Products :
        /\ p \notin stockTouched
        /\ SumOrders(orders, p) = InitStock
        /\ Cardinality({o \in orders : QtyOf(o.items, p) > 0}) = 2

\* C2: the reservation is one indivisible check-and-decrement. Every step that
\* answers a reserving update succeeds exactly on the stock the document holds at
\* that moment (and takes the quantity off it in the same step), and reports
\* insufficient stock exactly when the document does not hold the quantity; the
\* stock the earlier lookup read plays no part.
C2_AtomicReserve ==
    [][\A s \in Sagas :
         (saga[s].pc = "reserve" /\ saga'[s].pc # "reserve") =>
            LET p == saga[s].cart[saga[s].i].productId
                q == saga[s].cart[saga[s].i].quantity
                has == products[p].exists /\ products[p].stock >= q
            IN /\ Len(saga'[s].processedProducts) > Len(saga[s].processedProducts)
                    => (has /\ products'[p].stock = products[p].stock - q)
               /\ saga'[s].err = "insufficient" => (~has /\ products' = products)
               /\ saga'[s].err = "reserveErr" => products' = products
               /\ has => saga'[s].err # "insufficient"]_vars

\* two invocations both looked up a stock that covers either quantity but not both:
\* one holds the reservation, the other was told the stock is insufficient
C2_Witness ==
    \E a, b \in Sagas :
        /\ a # b
        /\ saga[b].err = "insufficient"
        /\ LET line == saga[b].cart[saga[b].i]
           IN /\ line.productId \notin stockTouched
              /\ saga[b].product.stock >= line.quantity
              /\ \E k \in 1..Len(saga[a].processedProducts) :
                    LET r == saga[a].processedProducts[k]
                    IN /\ r.ID = line.productId
                       /\ saga[b].product.stock >= r.Qty
                       /\ saga[b].product.stock < r.Qty + line.quantity

\* C3: an error return leaves no trace. Whenever PlaceOrder has returned an error
\* and none of its release writes failed, no order of that call is in the orders
\* collection and the call's net change of every product's stock is zero.
C3_ErrorLeavesNoTrace ==
    \A s \in Sagas :
        (Failed(s) /\ NoReleaseFailed(s)) => (OrdersBy(s) = {} /\ NetZero(s))

\* C4: a failed lookup of a later line releases the earlier reservations. When
\* PlaceOrder has returned product-not-found, it issued one release for each
\* reservation it had committed, and if none failed the stock is back.
C4_NotFoundReleases ==
    \A s \in Sagas :
        (Done(s) /\ saga[s].err = "notFound") =>
            /\ Released(s) = saga[s].processedProducts
            /\ NoReleaseFailed(s) => NetZero(s)

\* a two-line cart whose first line was reserved and whose second line was refused
\* for insufficient stock, after PlaceOrder returned
MidCartInsufficient(s) ==
    /\ Done(s)
    /\ saga[s].err = "insufficient"
    /\ Len(saga[s].cart) = 2
    /\ saga[s].i = 2

C6_InsertFailureReleasesAll ==
    \A s \in Sagas :
        (Done(s) /\ saga[s].err \in {"persist", "conflict"}) =>
            /\ Len(saga[s].processedProducts) = Len(saga[s].cart)
            /\ Released(s) = saga[s].processedProducts
            /\ \A k \in 1..Len(hist[s].relLog) : hist[s].relLog[k].ctx = "background"
            /\ OrdersBy(s) = {}

\* a two-line cart was reserved, its insert failed, and both lines were given back
C6_Witness ==
    \E s \in Sagas :
        /\ Done(s)
        /\ saga[s].err = "persist"
        /\ Len(hist[s].relLog) = 2
        /\ NoReleaseFailed(s)
        /\ hist[s].delta = ZeroDelta

\* C7: releases outlive the deadline. The releases of a call are issued under a
\* context of their own: no release write of any call fails on the passed deadline
\* of the request.
C7_ReleaseOutlivesDeadline ==
    \A s \in Sagas :
        \A k \in 1..Len(hist[s].relLog) : hist[s].relLog[k].out # "deadline"

\* C8: an empty cart is refused without a write. A call that fetched a cart of zero
\* lines has returned the empty-cart error, issued no write to any collection and
\* left no order.
C8_EmptyCartRejected ==
    \A s \in Sagas :
        (saga[s].pc # "idle" /\ saga[s].err # "fetchCart" /\ saga[s].cart = <<>>) =>
            /\ Done(s)
            /\ saga[s].err = "emptyCart"
            /\ hist[s].writes = 0
            /\ OrdersBy(s) = {}

\* a call on an empty cart returned the empty-cart error
C8_Witness ==
    \E s \in Sagas : Done(s) /\ saga[s].err = "emptyCart" /\ saga[s].cart = <<>>

\* C9: a first uniqueness conflict on the order number is retried. After a first
\* insert that answered with a conflict the call has released nothing and has not
\* turned to an error.
C9_ConflictRetried ==
    \A s \in Sagas :
        (hist[s].insLog # <<>> /\ hist[s].insLog[1] = "conflict") =>
            (hist[s].relLog = <<>> /\ saga[s].err = "none")

\* C10: price freshness. Every line of every order carries the price and the vendor
\* id that the call's own lookup of that line read from the products collection,
\* its subtotal is that price times the cart line's quantity, and the order's
\* subtotal is the sum of the lines' subtotals.
C10_PriceFreshness ==
    \A o \in orders :
        /\ Len(o.items) = Len(hist[o.by].seen)
        /\ Len(o.items) = Len(saga[o.by].cart)
        /\ \A k \in 1..Len(o.items) :
              /\ o.items[k].price = hist[o.by].seen[k].price
              /\ o.items[k].vendorId = hist[o.by].seen[k].vendorId
              /\ o.items[k].subtotal = hist[o.by].seen[k].price * saga[o.by].cart[k].quantity
        /\ o.subtotal = SumSeq([k \in 1..Len(o.items) |-> o.items[k].subtotal])

\* an order line whose price is not the price its cart line was added at
C10_Witness ==
    \E o \in orders : \E k \in 1..Len(o.items) :
        /\ o.items[k].price # saga[o.by].cart[k].price
        /\ o.items[k].price = products[o.items[k].productId].price

\* price times quantity of each line
LineTotals(items) == [k \in 1..Len(items) |-> items[k].price * items[k].quantity]

\* C11: total correctness. Every order's subtotal is the sum of price times quantity
\* over its lines, its shipping fee is 0 when the subtotal is above 500 and 25
\* otherwise (25 at exactly 500), its tax is 5% of the subtotal and its total is the
\* sum of the three: a subtotal of 480 totals 529 and one of 600 totals 630.
C11_TotalCorrectness ==
    \A o \in orders :
        /\ o.subtotal = SumSeq(LineTotals(o.items))
        /\ o.shippingFee = IF o.subtotal > 500 * Scale THEN 0 ELSE 25 * Scale
        /\ 100 * o.tax = 5 * o.subtotal
        /\ o.total = o.subtotal + o.shippingFee + o.tax
        /\ o.subtotal = 480 * Scale => o.total = 529 * Scale
        /\ o.subtotal = 600 * Scale => o.total = 630 * Scale
        /\ o.subtotal = 500 * Scale => o.total = 550 * Scale

\* an order of subtotal 480 and total 529
C11_Witness ==
    \E o \in orders : o.subtotal = 480 * Scale /\ o.total = 529 * Scale

\* an amount rounded half-up to two decimal places, a whole number of minor units
MinorUnit == Scale \div 100
RoundHalfUp(x) == ((x + MinorUnit \div 2) \div MinorUnit) * MinorUnit

\* C12: tax rounding. The tax of every order is 5% of its subtotal rounded half-up to
\* two decimal places, and the total is subtotal plus shipping fee plus that tax.
C12_TaxRoundedHalfUp ==
    \A o \in orders :
        /\ o.tax = RoundHalfUp((o.subtotal * 5) \div 100)
        /\ o.total = o.subtotal + o.shippingFee + RoundHalfUp((o.subtotal * 5) \div 100)

\* C13: the total is the sum of its parts. In every reachable state every order of
\* the collection has total = subtotal + shippingFee + tax, whatever status updates,
\* receipt confirmations and payment events it has been through.
C13_TotalIsSum ==
    \A o \in orders : o.total = o.subtotal + o.shippingFee + o.tax

\* an order that a vendor marked shipped with a tracking number, its buyer confirmed
\* and a payment event marked paid
C13_Witness ==
    \E o \in orders :
        /\ o.trackingNumber # ""
        /\ confirm.pc = "done" /\ confirm.err = "none" /\ confirm.orderID = o.id
        /\ o.paymentStatus = "paid"
        /\ o.shippingFee > 0
        /\ o.total = o.subtotal + o.shippingFee + o.tax

\* C14: all of the cart or nothing. Every order of the collection holds one line per
\* line of the cart its call fetched, in the cart's order and with the cart line's
\* quantity, and a call that has returned left either one such order and no error
\* or an error and no order.
C14_WholeCartOrNothing ==
    /\ \A o \in orders :
          /\ Len(o.items) = Len(saga[o.by].cart)
          /\ \A k \in 1..Len(o.items) :
                /\ o.items[k].productId = saga[o.by].cart[k].productId
                /\ o.items[k].quantity = saga[o.by].cart[k].quantity
    /\ \A s \in Sagas :
          Done(s) => \/ saga[s].err = "none" /\ Cardinality(OrdersBy(s)) = 1
                     \/ saga[s].err # "none" /\ OrdersBy(s) = {}

\* a call on a cart of two lines returned an order of two lines
C14_Witness ==
    \E s \in Sagas :
        /\ Done(s)
        /\ saga[s].err = "none"
        /\ Len(saga[s].cart) = 2
        /\ \E o \in OrdersBy(s) : Len(o.items) = 2

\* the number of inserts of a call that the store accepted
RECURSIVE Accepted(_)
Accepted(log) ==
    IF log = <<>> THEN 0 ELSE (IF Head(log) = "ok" THEN 1 ELSE 0) + Accepted(Tail(log))

\* C15: one order per successful call. Every call has inserted at most one order, a
\* call that returned has inserted one exactly when it returned success, and the
\* order in the collection is the one assembled from the call's locals, which is
\* what the call returns.
C15_ExactlyOnce ==
    \A s \in Sagas :
        /\ Cardinality(OrdersBy(s)) <= 1
        /\ Cardinality(OrdersBy(s)) = Accepted(hist[s].insLog)
        /\ Done(s) => (saga[s].err = "none" <=> Cardinality(OrdersBy(s)) = 1)
        /\ \A o \in OrdersBy(s) :
              /\ o.userId = saga[s].userID
              /\ o.items = saga[s].orderItems
              /\ o.subtotal = saga[s].subtotal
              /\ o.total = Total(saga[s].subtotal)

\* both calls returned, one with its order and one with an error and none
C15_Witness ==
    \E a, b \in Sagas :
        /\ Done(a) /\ saga[a].err = "none" /\ Cardinality(OrdersBy(a)) = 1
        /\ Done(b) /\ saga[b].err # "none" /\ hist[b].insLog # <<>> /\ OrdersBy(b) = {}

\* C16: orders are born pending. Every step that adds an order to the collection
\* adds it with order status "pending" and payment status "pending".
C16_BornPending ==
    [][\A o \in orders' :
         (\A x \in orders : x.id # o.id) =>
            (o.status = "pending" /\ o.paymentStatus = "pending")]_vars

\* an order right after its insert, before the cart is cleared
C16_Witness ==
    \E o \in orders :
        /\ saga[o.by].pc = "clearCart"
        /\ o.status = "pending"
        /\ o.paymentStatus = "pending"

\* C17: the cart clear is best-effort. A call whose insert succeeded and that has
\* returned, returned success, whether its cart clear succeeded or failed; it
\* released nothing and its order is in the collection.
C17_ClearCartBestEffort ==
    \A s \in Sagas :
        (Done(s) /\ Accepted(hist[s].insLog) = 1) =>
            /\ hist[s].clearOut \in {"ok", "failed"}
            /\ saga[s].err = "none"
            /\ hist[s].relLog = <<>>
            /\ OrdersBy(s) # {}

\* a call returned success although its cart clear failed and left the cart as it was
C17_Witness ==
    \E s \in Sagas :
        /\ Done(s)
        /\ hist[s].clearOut = "failed"
        /\ saga[s].err = "none"
        /\ OrdersBy(s) # {}
        /\ carts[saga[s].userID] = saga[s].cart

\* C18: the cart is written once, after the insert. A step of a call changes the
\* carts collection only if it is the call's cart clear, issued after the insert
\* succeeded and not issued before; a call that returned an error issued none.
C18_CartClearedOnce ==
    [][\A s \in Sagas :
         saga'[s] # saga[s] =>
            /\ carts' # carts => saga[s].pc = "clearCart"
            /\ hist'[s].cleared <= 1
            /\ hist'[s].cleared = 1 =>
                  (hist[s].insLog # <<>> /\ hist[s].insLog[Len(hist[s].insLog)] = "ok")
            /\ (saga'[s].pc = "done" /\ saga'[s].err # "none") => hist'[s].cleared = 0]_vars

\* one call cleared a cart of lines after its insert, another returned an error
\* having written no cart
C18_Witness ==
    \E a, b \in Sagas :
        /\ Done(a) /\ hist[a].cleared = 1 /\ hist[a].clearOut = "ok"
        /\ Failed(b) /\ saga[b].cart # <<>> /\ hist[b].cleared = 0

\* C19: persisted orders keep their lines and amounts. Every step leaves, for every
\* order of the collection, its number, buyer, line items, subtotal, shipping fee,
\* tax and total as they were.
C19_OrderSnapshotImmutable ==
    [][\A o \in orders :
         \E n \in orders' :
            /\ n.id = o.id
            /\ n.orderNumber = o.orderNumber
            /\ n.userId = o.userId
            /\ n.items = o.items
            /\ n.subtotal = o.subtotal
            /\ n.shippingFee = o.shippingFee
            /\ n.tax = o.tax
            /\ n.total = o.total]_vars

\* an order whose status was updated and whose product has since changed its price
\* or left the catalog
C19_Witness ==
    \E o \in orders :
        /\ o.status # "pending"
        /\ \E k \in 1..Len(o.items) :
              LET doc == products[o.items[k].productId]
              IN ~doc.exists \/ doc.price # o.items[k].price

\* C20: stock moves only by reservations and releases. Every step that changes the
\* stock of a product of the catalog is the reserving update or a releasing update
\* of some PlaceOrder call.
C20_StockOnlyByReserveRelease ==
    [][\A p \in Products :
         (products[p].exists /\ products'[p].exists
            /\ products'[p].stock # products[p].stock) =>
            \E s \in Sagas :
               /\ saga'[s] # saga[s]
               /\ saga[s].pc \in {"reserve", "rollback"}]_vars

\* C21: stock never goes below zero. In every reachable state, whatever the
\* interleaving of reservations and releases of the PlaceOrder calls, the stock of
\* every product is at least 0, and the stock of a product that only PlaceOrder
\* wrote is its initial stock less what the calls took and did not give back.
C21_StockNonNegative ==
    \A p \in Products :
        /\ products[p].stock >= 0
        /\ p \notin stockTouched =>
              products[p].stock = InitStock + SumSeq([k \in 1..2 |->
                                     hist[IF k = 1 THEN "s1" ELSE "s2"].delta[p]])

\* two calls hold reservations on the same product and have used up its stock
C21_Witness ==
    \E p \in Products :
        /\ p \notin stockTouched
        /\ products[p].stock = 0
        /\ \A s \in Sagas :
              /\ saga[s].pc \notin {"idle", "done"}
              /\ \E k \in 1..Len(saga[s].processedProducts) :
                    saga[s].processedProducts[k].ID = p

\* C22: cart quantities are positive. In every state reached by AddToCart,
\* UpdateQuantity, RemoveFromCart and ClearCart requests, every line of every cart
\* has a quantity of at least 1.
C22_CartQuantityPositive ==
    \A u \in Users : \A k \in 1..Len(carts[u]) : carts[u][k].quantity >= 1

\* a cart of one line of quantity 1 after three cart requests, no checkout started
C22_Witness ==
    \E u \in Users :
        /\ events = 3
        /\ Len(carts[u]) = 1
        /\ carts[u][1].quantity = 1
        /\ \A s \in Sagas : saga[s].pc = "idle"

\* the errors of an abort: a failed lookup, a failed or refused reservation, a failed
\* insert
AbortErrors == {"notFound", "reserveErr", "insufficient", "persist", "conflict"}
Last(q) == q[Len(q)]

\* C23: an abort releases every reservation. When a call has returned after an
\* abort, the releases it issued are its reservation list: one release per entry,
\* by the entry's quantity, none skipped after a release that failed, and none for
\* the line that could not be reserved.
C23_AbortReleasesEveryEntry ==
    \A s \in Sagas :
        (Done(s) /\ saga[s].err \in AbortErrors) =>
            Released(s) = saga[s].processedProducts

\* C24: the returned error is the error that triggered the abort. A call that has
\* returned after a failed insert returns the insert's error, and a call that has
\* returned after releases without an insert returns the reservation's error,
\* whatever the releases answered.
C24_TriggeringErrorReturned ==
    \A s \in Sagas :
        Done(s) =>
            /\ (hist[s].insLog # <<>> /\ Last(hist[s].insLog) # "ok") =>
                  saga[s].err = IF Last(hist[s].insLog) = "conflict"
                                THEN "conflict" ELSE "persist"
            /\ (hist[s].insLog = <<>> /\ hist[s].relLog # <<>>) =>
                  saga[s].err \in {"reserveErr", "insufficient"}

\* a call returned insufficient stock although a release of its abort failed
C24_Witness ==
    \E s \in Sagas :
        /\ Done(s)
        /\ saga[s].err = "insufficient"
        /\ \E k \in 1..Len(hist[s].relLog) : hist[s].relLog[k].out # "ok"

\* a call that started returns, when every store call returns
SagaTerminates == (saga[Buyer].pc # "idle") ~> Done(Buyer)

\* the two terminal states of a call
Persisted(s) == OrdersBy(s) # {} /\ hist[s].relLog = <<>>
Compensated(s) == OrdersBy(s) = {} /\ Released(s) = saga[s].processedProducts

\* C25: a call ends persisted or compensated. A call in flight can always take its
\* next step, a call that has returned is in exactly one of the two terminal
\* states, and no call has both an order in the collection and a release issued.
C25_PersistedOrCompensated ==
    \A s \in Sagas :
        /\ saga[s].pc \notin {"idle", "done"} =>
              ENABLED (Lookup(s) \/ Reserve(s) \/ Release(s) \/ Insert(s) \/ ClearCart(s))
        /\ Done(s) => (Persisted(s) \/ Compensated(s))
        /\ ~(Persisted(s) /\ Compensated(s))
        /\ ~(OrdersBy(s) # {} /\ hist[s].relLog # <<>>)

\* C26: lines are reserved one at a time in cart order. At every point the
\* reservation list of a call is the first k lines of its cart, product and
\* quantity, and while the call is looking up or reserving line i the list holds
\* exactly the i - 1 lines before it.
C26_ReservedInCartOrder ==
    \A s \in Sagas :
        LET pp == saga[s].processedProducts
            c == saga[s].cart
        IN /\ Len(pp) <= Len(c)
           /\ \A k \in 1..Len(pp) :
                 pp[k] = [ID |-> c[k].productId, Qty |-> c[k].quantity]
           /\ saga[s].pc \in {"lookup", "reserve"} => Len(pp) = saga[s].i - 1

\* a call is about to reserve line 2 of its cart, holding the reservation of line 1
C26_Witness ==
    \E s \in Sagas :
        /\ saga[s].pc = "reserve"
        /\ saga[s].i = 2
        /\ Len(saga[s].processedProducts) = 1
        /\ saga[s].cart[1].productId # saga[s].cart[2].productId

\* C27: stock and orders account for each other. Whenever no call is in flight and
\* no release write has failed, every product whose stock only PlaceOrder wrote has
\* initial stock = current stock + the product's quantities over all orders.
C27_StockAccountedFor ==
    ((\A s \in Sagas : saga[s].pc \in {"idle", "done"})
        /\ (\A s \in Sagas : NoReleaseFailed(s))) =>
        \A p \in Products :
            p \notin stockTouched =>
                InitStock = products[p].stock + SumOrders(orders, p)

\* C28: the cart clear removes ordered lines only. Every step in which a call
\* empties its buyer's cart finds in the cart only lines of products that are in
\* the order the call created.
C28_ClearRemovesOrderedLinesOnly ==
    [][\A s \in Sagas :
         (saga[s].pc = "clearCart" /\ saga'[s].pc = "done"
            /\ carts'[saga[s].userID] = <<>>) =>
            \A k \in 1..Len(carts[saga[s].userID]) :
               \E o \in OrdersBy(s) : \E j \in 1..Len(o.items) :
                  o.items[j].productId = carts[saga[s].userID][k].productId]_vars

\* C29: the payment status only moves from pending to paid. Every step that changes
\* the payment status of an order changes it from "pending" to "paid" and leaves
\* the order status "paid", and every step leaves a paid order paid.
C29_PaymentStatusMonotone ==
    [][\A o \in orders : \A n \in orders' :
         n.id = o.id =>
            /\ o.paymentStatus = "paid" => n.paymentStatus = "paid"
            /\ n.paymentStatus # o.paymentStatus =>
                  /\ o.paymentStatus = "pending"
                  /\ n.paymentStatus = "paid"
                  /\ n.status = "paid"]_vars

\* a paid order whose status a vendor's update changed afterwards
C29_Witness ==
    \E o \in orders :
        /\ o.paymentStatus = "paid"
        /\ o.paymentId # ""
        /\ o.status \in StatusInputs

\* C30: ConfirmReceipt delivers shipped orders of the caller only. Every step in
\* which ConfirmReceipt writes "delivered" finds the order with the caller as buyer
\* and with status "shipped", and a ConfirmReceipt that ends with an error has left
\* the orders as they were.
C30_ConfirmOnlyShipped ==
    [][/\ (confirm.pc = "write" /\ confirm'.pc = "done") =>
             \A o \in orders :
                o.id = confirm.orderID =>
                   (o.userId = confirm.userID /\ o.status = "shipped")
       /\ (confirm.pc # "done" /\ confirm'.pc = "done" /\ confirm'.err # "none") =>
             orders' = orders]_vars

=============================================================================
